---- MODULE Spec2Model ----
(***************************************************************************)
(* Model of the babylon provider layer: LLMProvider.chat_completion, the   *)
(* transport LLMProvider._make_request, and the five vendor adapters       *)
(* (OpenAI, Anthropic, Google, DeepSeek, xAI).                             *)
(*                                                                         *)
(* Python strings are sequences of one-character strings, so that          *)
(* formatting, strip(), replace() and lower() are computed.  JSON / Python *)
(* values are tagged records; a raised exception is the value Raise(cls).  *)
(***************************************************************************)
EXTENDS Integers, Sequences, FiniteSets, TLC

(***************************************************************************)
(* Bounds                                                                  *)
(***************************************************************************)
\* longest message sequence a caller passes
MaxMsgs == 2

(***************************************************************************)
(* Python / JSON values                                                    *)
(***************************************************************************)
None == [t |-> "null"]
Str(s) == [t |-> "str", v |-> s]
Num(n) == [t |-> "num", v |-> n]
Bool(b) == [t |-> "bool", v |-> b]
List(s) == [t |-> "list", v |-> s]
Dict(f) == [t |-> "obj", v |-> f]
EmptyDict == Dict([k \in {} |-> None])
Raise(e) == [t |-> "raise", exc |-> e]
IsRaise(x) == x.t = "raise"

\* bool(x)
Truthy(x) ==
    CASE x.t = "null" -> FALSE
      [] x.t = "str" -> Len(x.v) > 0
      [] x.t = "num" -> x.v # 0
      [] x.t = "bool" -> x.v
      [] x.t = "list" -> Len(x.v) > 0
      [] x.t = "obj" -> DOMAIN x.v # {}

\* x.get(k): only a dict has the method
DictGet(x, k) ==
    IF IsRaise(x) THEN x
    ELSE IF x.t # "obj" THEN Raise("AttributeError")
    ELSE IF k \in DOMAIN x.v THEN x.v[k] ELSE None

\* x[k] with a string key k
GetItem(x, k) ==
    IF IsRaise(x) THEN x
    ELSE IF x.t = "obj"
         THEN IF k \in DOMAIN x.v THEN x.v[k] ELSE Raise("KeyError")
         ELSE Raise("TypeError")

\* x[0]
GetIndex0(x) ==
    IF IsRaise(x) THEN x
    ELSE CASE x.t = "list" -> IF Len(x.v) > 0 THEN x.v[1] ELSE Raise("IndexError")
           [] x.t = "str" -> IF Len(x.v) > 0 THEN Str(<<x.v[1]>>) ELSE Raise("IndexError")
           [] x.t = "obj" -> Raise("KeyError")
           [] OTHER -> Raise("TypeError")

\* the items a for-loop over x visits (a dict yields its keys, which are
\* strings whose characters are not modelled)
IterItems(x) ==
    CASE x.t = "list" -> x.v
      [] x.t = "str" -> [i \in 1..Len(x.v) |-> Str(<<x.v[i]>>)]
      [] x.t = "obj" -> [i \in 1..Cardinality(DOMAIN x.v) |-> Str(<<"?">>)]
      [] OTHER -> <<>>
Iterable(x) == x.t \in {"list", "str", "obj"}

(***************************************************************************)
(* String functions                                                        *)
(***************************************************************************)
Whitespace == {" ", "\n", "\t", "\r"}

RECURSIVE LStrip(_)
LStrip(s) == IF s # <<>> /\ s[1] \in Whitespace THEN LStrip(Tail(s)) ELSE s

RECURSIVE RStrip(_)
RStrip(s) ==
    IF s # <<>> /\ s[Len(s)] \in Whitespace THEN RStrip(SubSeq(s, 1, Len(s) - 1)) ELSE s

\* str.strip()
Strip(s) == RStrip(LStrip(s))

LowerChar(c) ==
    CASE c = "A" -> "a" [] c = "B" -> "b" [] c = "C" -> "c" [] c = "D" -> "d"
      [] c = "E" -> "e" [] c = "F" -> "f" [] c = "G" -> "g" [] c = "H" -> "h"
      [] c = "I" -> "i" [] c = "J" -> "j" [] c = "K" -> "k" [] c = "L" -> "l"
      [] c = "M" -> "m" [] c = "N" -> "n" [] c = "O" -> "o" [] c = "P" -> "p"
      [] c = "Q" -> "q" [] c = "R" -> "r" [] c = "S" -> "s" [] c = "T" -> "t"
      [] c = "U" -> "u" [] c = "V" -> "v" [] c = "W" -> "w" [] c = "X" -> "x"
      [] c = "Y" -> "y" [] c = "Z" -> "z" [] OTHER -> c

\* str.lower()
Lower(s) == [i \in 1..Len(s) |-> LowerChar(s[i])]

\* str.replace(old, new), old non-empty
RECURSIVE Replace(_, _, _)
Replace(s, old, new) ==
    IF Len(s) < Len(old) THEN s
    ELSE IF SubSeq(s, 1, Len(old)) = old
         THEN new \o Replace(SubSeq(s, Len(old) + 1, Len(s)), old, new)
         ELSE <<s[1]>> \o Replace(Tail(s), old, new)

\* key in text
IsSubstr(key, text) ==
    \E i \in 1..(Len(text) - Len(key) + 1) : SubSeq(text, i, i + Len(key) - 1) = key

(***************************************************************************)
(* String constants of the source                                          *)
(***************************************************************************)
S_Provider == <<"P", "r", "o", "v", "i", "d", "e", "r">>
S_chat_completions == <<"/", "c", "h", "a", "t", "/", "c", "o", "m", "p", "l", "e", "t", "i", "o", "n", "s">>
S_messages == <<"/", "m", "e", "s", "s", "a", "g", "e", "s">>
S_models == <<"/", "m", "o", "d", "e", "l", "s", "/">>
S_generateContent == <<":", "g", "e", "n", "e", "r", "a", "t", "e", "C", "o", "n", "t", "e", "n", "t", "?", "k", "e", "y", "=">>
S_Bearer == <<"B", "e", "a", "r", "e", "r", " ">>
S_Authorization == <<"A", "u", "t", "h", "o", "r", "i", "z", "a", "t", "i", "o", "n">>
S_ContentType == <<"C", "o", "n", "t", "e", "n", "t", "-", "T", "y", "p", "e">>
S_application_json == <<"a", "p", "p", "l", "i", "c", "a", "t", "i", "o", "n", "/", "j", "s", "o", "n">>
S_x_api_key == <<"x", "-", "a", "p", "i", "-", "k", "e", "y">>
S_anthropic_version == <<"a", "n", "t", "h", "r", "o", "p", "i", "c", "-", "v", "e", "r", "s", "i", "o", "n">>
S_2023_06_01 == <<"2", "0", "2", "3", "-", "0", "6", "-", "0", "1">>
S_text == <<"t", "e", "x", "t">>
S_user == <<"u", "s", "e", "r">>
S_newline == <<"\n">>

(***************************************************************************)
(* Adapter construction                                                    *)
(***************************************************************************)
Kinds == {"OpenAI", "Anthropic", "Google", "DeepSeek", "xAI"}

\* self.__class__.__name__
ClassName(kind) ==
    CASE kind = "OpenAI" -> <<"O", "p", "e", "n", "A", "I", "P", "r", "o", "v", "i", "d", "e", "r">>
      [] kind = "Anthropic" -> <<"A", "n", "t", "h", "r", "o", "p", "i", "c", "P", "r", "o", "v", "i", "d", "e", "r">>
      [] kind = "Google" -> <<"G", "o", "o", "g", "l", "e", "P", "r", "o", "v", "i", "d", "e", "r">>
      [] kind = "DeepSeek" -> <<"D", "e", "e", "p", "S", "e", "e", "k", "P", "r", "o", "v", "i", "d", "e", "r">>
      [] kind = "xAI" -> <<"x", "A", "I", "P", "r", "o", "v", "i", "d", "e", "r">>

\* the base_url default of each adapter's __init__
DefaultBaseUrl(kind) ==
    CASE kind = "OpenAI" -> <<"h", "t", "t", "p", "s", ":", "/", "/", "a", "p", "i", ".", "o", "p", "e", "n", "a", "i", ".", "c", "o", "m", "/", "v", "1">>
      [] kind = "Anthropic" -> <<"h", "t", "t", "p", "s", ":", "/", "/", "a", "p", "i", ".", "a", "n", "t", "h", "r", "o", "p", "i", "c", ".", "c", "o", "m", "/", "v", "1">>
      [] kind = "Google" -> <<"h", "t", "t", "p", "s", ":", "/", "/", "g", "e", "n", "e", "r", "a", "t", "i", "v", "e", "l", "a", "n", "g", "u", "a", "g", "e", ".", "g", "o", "o", "g", "l", "e", "a", "p", "i", "s", ".", "c", "o", "m", "/", "v", "1", "b", "e", "t", "a">>
      [] kind = "DeepSeek" -> <<"h", "t", "t", "p", "s", ":", "/", "/", "a", "p", "i", ".", "d", "e", "e", "p", "s", "e", "e", "k", ".", "c", "o", "m", "/", "v", "1">>
      [] kind = "xAI" -> <<"h", "t", "t", "p", "s", ":", "/", "/", "a", "p", "i", ".", "x", ".", "a", "i", "/", "v", "1">>

Header(n, v) == [name |-> n, value |-> v]

\* the headers dict each adapter's __init__ builds, in insertion order
InitHeaders(kind, api_key) ==
    CASE kind \in {"OpenAI", "DeepSeek", "xAI"} ->
           <<Header(S_Authorization, S_Bearer \o api_key),
             Header(S_ContentType, S_application_json)>>
      [] kind = "Anthropic" ->
           <<Header(S_x_api_key, api_key),
             Header(S_anthropic_version, S_2023_06_01),
             Header(S_ContentType, S_application_json)>>
      [] kind = "Google" ->
           <<Header(S_ContentType, S_application_json)>>

DefaultTimeout == 30

\* LLMProvider.__init__ as called by the adapter's __init__
NewProvider(kind, api_key, base_url) ==
    [kind |-> kind,
     api_key |-> api_key,
     base_url |-> base_url,
     headers |-> InitHeaders(kind, api_key),
     timeout |-> DefaultTimeout]

(***************************************************************************)
(* URL builders                                                            *)
(***************************************************************************)
\* _build_url of every adapter
BuildUrl(p, model) ==
    CASE p.kind \in {"OpenAI", "DeepSeek", "xAI"} -> p.base_url \o S_chat_completions
      [] p.kind = "Anthropic" -> p.base_url \o S_messages
      [] p.kind = "Google" ->
           p.base_url \o S_models \o model \o S_generateContent \o p.api_key

(***************************************************************************)
(* Payload builders                                                        *)
(***************************************************************************)
\* Merge, except that only the keys the adapter itself sets are kept
MergeKnownKeysOnly(base, kwargs) ==
    [k \in DOMAIN base |-> IF k \in DOMAIN kwargs THEN kwargs[k] ELSE base[k]]

\* the dict display {**base, **kwargs}: a later key replaces an earlier one
Merge(base, kwargs) ==
    [k \in (DOMAIN base) \cup (DOMAIN kwargs) |->
        IF k \in DOMAIN kwargs THEN kwargs[k] ELSE base[k]]

\* KwGet without the default: kwargs.get(k)
KwGetNoDefault(kwargs, k, default) == IF k \in DOMAIN kwargs THEN kwargs[k] ELSE None

\* kwargs.get(k, default)
KwGet(kwargs, k, default) == IF k \in DOMAIN kwargs THEN kwargs[k] ELSE default

DefaultMaxTokens == 1024

\* the loop of GoogleProvider._build_payload over the messages, from prompt_text = acc
RECURSIVE GooglePromptText(_, _)
GooglePromptText(msgs, acc) ==
    IF msgs = <<>> THEN Str(acc)
    ELSE LET role == GetItem(msgs[1], "role") IN
         IF IsRaise(role) THEN role
         ELSE IF role = Str(S_user)
              THEN LET content == GetItem(msgs[1], "content") IN
                   IF IsRaise(content) THEN content
                   ELSE IF content.t # "str" THEN Raise("TypeError")
                   ELSE GooglePromptText(Tail(msgs), acc \o content.v \o S_newline)
              ELSE GooglePromptText(Tail(msgs), acc)

GoogleContents(prompt) ==
    List(<<Dict([parts |-> List(<<Dict([text |-> Str(Strip(prompt))])>>)])>>)

\* _build_payload of every adapter; messages is a list value, kwargs a mapping
BuildPayload(p, model, messages, kwargs) ==
    CASE p.kind \in {"OpenAI", "DeepSeek", "xAI"} ->
           Dict(Merge([model |-> Str(model), messages |-> messages], kwargs))
      [] p.kind = "Anthropic" ->
           Dict(Merge([model |-> Str(model), messages |-> messages,
                       max_tokens |-> KwGet(kwargs, "max_tokens", Num(DefaultMaxTokens))],
                      kwargs))
      [] p.kind = "Google" ->
           LET prompt == GooglePromptText(messages.v, <<>>) IN
           IF IsRaise(prompt) THEN prompt
           ELSE Dict(Merge([contents |-> GoogleContents(prompt.v)], kwargs))

(***************************************************************************)
(* Extractors                                                              *)
(***************************************************************************)
\* if raw_response and raw_response.get('choices'):
\*     return raw_response['choices'][0]['message']['content']
\* return None
ChoicesContent(raw) ==
    IF ~Truthy(raw) THEN None
    ELSE LET choices == DictGet(raw, "choices") IN
         IF IsRaise(choices) THEN choices
         ELSE IF ~Truthy(choices) THEN None
         ELSE GetItem(GetItem(GetIndex0(GetItem(raw, "choices")), "message"), "content")

\* OpenAIProvider._extract_text_from_response
OpenAIExtractText(raw) == ChoicesContent(raw)

\* xAIProvider._extract_text_from_response
xAIExtractText(raw) == ChoicesContent(raw)

\* x.strip(): only a str has the method
StripMethod(x) ==
    IF IsRaise(x) THEN x
    ELSE IF x.t = "str" THEN Str(Strip(x.v)) ELSE Raise("AttributeError")

\* DeepSeekProvider._extract_text_from_response
DeepSeekExtractText(raw) ==
    IF ~Truthy(raw) THEN None
    ELSE LET choices == DictGet(raw, "choices") IN
         IF IsRaise(choices) THEN choices
         ELSE IF ~Truthy(choices) THEN None
         ELSE StripMethod(GetItem(GetItem(GetIndex0(GetItem(raw, "choices")), "message"), "content"))

\* "".join(items): every item must be a str
RECURSIVE JoinStr(_)
JoinStr(items) ==
    IF items = <<>> THEN Str(<<>>)
    ELSE IF items[1].t # "str" THEN Raise("TypeError")
    ELSE LET rest == JoinStr(Tail(items)) IN
         IF IsRaise(rest) THEN rest ELSE Str(items[1].v \o rest.v)

\* AnthropicTextBlocks without the filter on the type
RECURSIVE AnthropicAllBlocks(_)
AnthropicAllBlocks(items) ==
    IF items = <<>> THEN List(<<>>)
    ELSE LET ty == GetItem(items[1], "type") IN
         IF IsRaise(ty) THEN ty
         ELSE LET rest == AnthropicAllBlocks(Tail(items)) IN
              IF IsRaise(rest) THEN rest ELSE List(<<items[1]>> \o rest.v)

\* [block for block in items if block['type'] == 'text']
RECURSIVE AnthropicTextBlocks(_)
AnthropicTextBlocks(items) ==
    IF items = <<>> THEN List(<<>>)
    ELSE LET ty == GetItem(items[1], "type") IN
         IF IsRaise(ty) THEN ty
         ELSE LET rest == AnthropicTextBlocks(Tail(items)) IN
              IF IsRaise(rest) THEN rest
              ELSE IF ty = Str(S_text) THEN List(<<items[1]>> \o rest.v) ELSE rest

\* [block['text'] for block in blocks]
RECURSIVE AnthropicBlockTexts(_)
AnthropicBlockTexts(blocks) ==
    IF blocks = <<>> THEN List(<<>>)
    ELSE LET tx == GetItem(blocks[1], "text") IN
         IF IsRaise(tx) THEN tx
         ELSE LET rest == AnthropicBlockTexts(Tail(blocks)) IN
              IF IsRaise(rest) THEN rest ELSE List(<<tx>> \o rest.v)

\* AnthropicProvider._extract_text_from_response
AnthropicExtractText(raw) ==
    IF ~Truthy(raw) THEN None
    ELSE LET content == DictGet(raw, "content") IN
         IF IsRaise(content) THEN content
         ELSE IF ~Truthy(content) THEN None
         ELSE IF ~Iterable(content) THEN Raise("TypeError")
         ELSE LET blocks == AnthropicTextBlocks(IterItems(content)) IN
              IF IsRaise(blocks) THEN blocks
              ELSE LET texts == AnthropicBlockTexts(blocks.v) IN
                   IF IsRaise(texts) THEN texts ELSE JoinStr(texts.v)

\* [part['text'] for part in items if part.get('text')]
RECURSIVE GooglePartTexts(_)
GooglePartTexts(items) ==
    IF items = <<>> THEN List(<<>>)
    ELSE LET tx == DictGet(items[1], "text") IN
         IF IsRaise(tx) THEN tx
         ELSE LET rest == GooglePartTexts(Tail(items)) IN
              IF IsRaise(rest) THEN rest
              ELSE IF Truthy(tx) THEN List(<<GetItem(items[1], "text")>> \o rest.v) ELSE rest

\* GoogleProvider._extract_text_from_response
GoogleExtractText(raw) ==
    IF ~Truthy(raw) THEN None
    ELSE LET candidates == DictGet(raw, "candidates") IN
         IF IsRaise(candidates) THEN candidates
         ELSE IF ~Truthy(candidates) THEN None
         ELSE LET content == DictGet(GetIndex0(candidates), "content") IN
              IF IsRaise(content) THEN content
              ELSE IF ~Truthy(content) THEN None
              ELSE LET parts == DictGet(content, "parts") IN
                   IF IsRaise(parts) THEN parts
                   ELSE IF ~Truthy(parts) THEN None
                   ELSE IF ~Iterable(parts) THEN Raise("TypeError")
                   ELSE LET texts == GooglePartTexts(IterItems(parts)) IN
                        IF IsRaise(texts) THEN texts ELSE JoinStr(texts.v)

\* _extract_text_from_response of the adapter p
ExtractText(p, raw) ==
    CASE p.kind = "OpenAI" -> OpenAIExtractText(raw)
      [] p.kind = "xAI" -> xAIExtractText(raw)
      [] p.kind = "DeepSeek" -> DeepSeekExtractText(raw)
      [] p.kind = "Anthropic" -> AnthropicExtractText(raw)
      [] p.kind = "Google" -> GoogleExtractText(raw)

\* _extract_usage_from_response of the adapter p
ExtractUsage(p, raw) ==
    IF p.kind = "Google" THEN DictGet(raw, "usageMetadata") ELSE DictGet(raw, "usage")

\* if raw_response and raw_response.get('choices'):
\*     return raw_response['choices'][0].get('finish_reason')
\* return None
ChoicesFinishReason(raw) ==
    IF ~Truthy(raw) THEN None
    ELSE LET choices == DictGet(raw, "choices") IN
         IF IsRaise(choices) THEN choices
         ELSE IF ~Truthy(choices) THEN None
         ELSE DictGet(GetIndex0(GetItem(raw, "choices")), "finish_reason")

\* GoogleProvider._extract_finish_reason_from_response
GoogleFinishReason(raw) ==
    IF ~Truthy(raw) THEN None
    ELSE LET candidates == DictGet(raw, "candidates") IN
         IF IsRaise(candidates) THEN candidates
         ELSE IF ~Truthy(candidates) THEN None
         ELSE LET fr == DictGet(GetIndex0(candidates), "finishReason") IN
              IF IsRaise(fr) THEN fr
              ELSE IF ~Truthy(fr) THEN None
              ELSE fr

\* _extract_finish_reason_from_response of the adapter p
ExtractFinishReason(p, raw) ==
    CASE p.kind \in {"OpenAI", "DeepSeek", "xAI"} -> ChoicesFinishReason(raw)
      [] p.kind = "Anthropic" -> DictGet(raw, "stop_reason")
      [] p.kind = "Google" -> GoogleFinishReason(raw)

(***************************************************************************)
(* Result assembly of chat_completion                                      *)
(***************************************************************************)
\* ProviderTag without the lower()
ProviderTagCaseKept(p) == Replace(ClassName(p.kind), S_Provider, <<>>)

\* self.__class__.__name__.replace('Provider', '').lower()
ProviderTag(p) == Lower(Replace(ClassName(p.kind), S_Provider, <<>>))

\* NormalizedResult, except that raw_response gets the treatment of text
NormalizedResultRawOrNone(p, model, raw, text, usage, finish_reason) ==
    [text |-> IF Truthy(text) THEN text ELSE None,
     provider |-> Lower(Replace(ClassName(p.kind), S_Provider, <<>>)),
     model |-> model,
     raw_response |-> IF Truthy(raw) THEN raw ELSE None,
     usage |-> usage,
     finish_reason |-> finish_reason]

\* the dict chat_completion returns
NormalizedResult(p, model, raw, text, usage, finish_reason) ==
    [text |-> IF Truthy(text) THEN text ELSE None,
     provider |-> ProviderTag(p),
     model |-> model,
     raw_response |-> raw,
     usage |-> usage,
     finish_reason |-> finish_reason]

(***************************************************************************)
(* Transport: what aiohttp does with the HTTP response                     *)
(***************************************************************************)
\* an exception object: its class, and the status and headers a
\* ClientResponseError carries
Err(cls, status, headers) == [cls |-> cls, status |-> status, headers |-> headers]
NoError == Err("none", 0, <<>>)

\* isinstance(e, aiohttp.ClientResponseError); ContentTypeError is a subclass
IsClientResponseError(e) == e.cls \in {"ClientResponseError", "ContentTypeError"}

\* response.raise_for_status(): raises unless response.ok, and ok is status < 400
RaiseForStatus(resp) ==
    IF resp.status >= 400
    THEN Err("ClientResponseError", resp.status, resp.headers)
    ELSE NoError

\* await response.json(): checks the content type, then decodes the body
ResponseJsonError(resp) ==
    IF resp.ctype # S_application_json
    THEN Err("ContentTypeError", resp.status, resp.headers)
    ELSE IF ~resp.decodable THEN Err("JSONDecodeError", 0, <<>>)
    ELSE NoError

(***************************************************************************)
(* Log events                                                              *)
(***************************************************************************)
S_RequestURL == <<"R", "e", "q", "u", "e", "s", "t", " ", "U", "R", "L", ":", " ">>
S_RequestHeaders == <<"R", "e", "q", "u", "e", "s", "t", " ", "H", "e", "a", "d", "e", "r", "s", ":">>
S_RequestPayload == <<"R", "e", "q", "u", "e", "s", "t", " ", "P", "a", "y", "l", "o", "a", "d", ":">>
S_ResponseJSON == <<"R", "e", "s", "p", "o", "n", "s", "e", " ", "J", "S", "O", "N", ":">>
S_ClientResponseError == <<"C", "l", "i", "e", "n", "t", "R", "e", "s", "p", "o", "n", "s", "e", "E", "r", "r", "o", "r", ":", " ">>
S_ResponseHeadersOnError == <<"R", "e", "s", "p", "o", "n", "s", "e", " ", "H", "e", "a", "d", "e", "r", "s", " ", "o", "n", " ", "E", "r", "r", "o", "r", ":">>
S_url == <<",", " ", "u", "r", "l", "=">>

\* a log record: its level, its message text and, for json.dumps(...), the
\* value that is dumped
Event(level, text, json) == [level |-> level, text |-> text, json |-> json]

\* str() of a headers mapping: every name and value, in order
RECURSIVE ReprHeaders(_)
ReprHeaders(hs) ==
    IF hs = <<>> THEN <<>>
    ELSE <<"'">> \o hs[1].name \o <<"'", ":", " ", "'">> \o hs[1].value \o <<"'", ",", " ">>
         \o ReprHeaders(Tail(hs))

DigitChar(d) ==
    CASE d = 0 -> "0" [] d = 1 -> "1" [] d = 2 -> "2" [] d = 3 -> "3" [] d = 4 -> "4"
      [] d = 5 -> "5" [] d = 6 -> "6" [] d = 7 -> "7" [] d = 8 -> "8" [] d = 9 -> "9"

\* str(n)
RECURSIVE Digits(_)
Digits(n) == IF n < 10 THEN <<DigitChar(n)>> ELSE Digits(n \div 10) \o <<DigitChar(n % 10)>>

\* str(e) of a ClientResponseError: the status and the request URL
ErrorStr(e, url) == Digits(e.status) \o S_url \o url

\* lines 55-59 of _make_request
RequestLog(url, headers, payload) ==
    <<Event("DEBUG", S_RequestURL \o url, None),
      Event("DEBUG", S_RequestHeaders, None),
      Event("DEBUG", ReprHeaders(headers), None),
      Event("DEBUG", S_RequestPayload, None),
      Event("DEBUG", <<>>, payload)>>

\* lines 66-67 of _make_request
ResponseLog(body) ==
    <<Event("DEBUG", S_ResponseJSON, None),
      Event("DEBUG", <<>>, body)>>

\* lines 70-72 of _make_request
ErrorLog(e, url, resp) ==
    <<Event("ERROR", S_ClientResponseError \o ErrorStr(e, url), None),
      Event("ERROR", S_ResponseHeadersOnError, None),
      Event("ERROR", ReprHeaders(resp.headers), None)>>

\* the try/except of _make_request on the response resp to the POST of url:
\* the exception that leaves _make_request (NoError when it returns), the
\* value it returns, and the records it logs
MakeRequestOutcome(url, resp) ==
    LET e1 == RaiseForStatus(resp)
        e2 == IF e1 # NoError THEN e1 ELSE ResponseJsonError(resp)
    IN  IF e2 = NoError
        THEN [error |-> NoError, body |-> resp.body, log |-> ResponseLog(resp.body)]
        ELSE IF IsClientResponseError(e2)
        THEN [error |-> e2, body |-> None, log |-> ErrorLog(e2, url, resp)]
        ELSE [error |-> e2, body |-> None, log |-> <<>>]

(***************************************************************************)
(* Inputs: what callers pass and what vendors answer                       *)
(***************************************************************************)
ApiKeys == {<<"s", "k", "-", "7">>}

Models == {<<"m", "1">>, <<"m", "2">>}

Message(role, content) == Dict([role |-> Str(role), content |-> Str(content)])

\* a user turn with surrounding whitespace, a plain user turn, a system
\* turn, and a malformed message without a role
MsgPool ==
    {Message(S_user, <<" ", "a", " ">>),
     Message(S_user, <<"q">>),
     Message(<<"s", "y", "s", "t", "e", "m">>, <<"b">>),
     Dict([content |-> Str(<<"c">>)])}

RECURSIVE SeqsUpTo(_, _)
SeqsUpTo(S, n) ==
    IF n = 0 THEN {<<>>}
    ELSE LET shorter == SeqsUpTo(S, n - 1) IN
         shorter \cup {Append(q, x) : q \in {r \in shorter : Len(r) = n - 1}, x \in S}

MessageLists == {List(q) : q \in SeqsUpTo(MsgPool, MaxMsgs)}

ToolDecl == List(<<Dict([name |-> Str(<<"f">>)])>>)

\* the keyword arguments of a call
OptionsPool ==
    {[k \in {} |-> None],
     [tools |-> ToolDecl],
     [max_tokens |-> Num(5), tools |-> ToolDecl],
     [contents |-> List(<<Dict([parts |-> List(<<Dict([text |-> Str(<<"z">>)])>>)])>>)],
     [model |-> Str(<<"m", "9">>)]}

S_stop == <<"s", "t", "o", "p">>

Choice(content) == Dict([message |-> Dict([content |-> content])])

ChoicesBodies ==
    {Dict([choices |-> List(<<Dict([message |-> Dict([content |-> Str(<<"4">>)]),
                                    finish_reason |-> Str(S_stop)])>>),
           usage |-> Dict([total_tokens |-> Num(5)]),
           model |-> Str(<<"v", "x">>)]),
     Dict([choices |-> List(<<Choice(Str(<<" ", "4", "\n">>))>>)]),
     Dict([choices |-> List(<<Dict([message |-> Dict([content |-> None,
                                                       tool_calls |-> ToolDecl]),
                                    finish_reason |-> Str(<<"t", "c">>)])>>)]),
     Dict([choices |-> List(<<Choice(Str(<<>>))>>)]),
     Dict([choices |-> List(<<Dict([finish_reason |-> Str(S_stop)])>>)]),
     Dict([choices |-> List(<<Dict([message |-> Dict([role |-> Str(<<"a">>)])])>>)]),
     Dict([choices |-> List(<<>>)])}

TextBlock(s) == Dict([type |-> Str(S_text), text |-> Str(s)])
ToolUseBlock == Dict([type |-> Str(<<"t", "u">>), name |-> Str(<<"f">>)])

ContentBodies ==
    {Dict([content |-> List(<<TextBlock(<<"4">>)>>),
           stop_reason |-> Str(<<"e", "n", "d">>),
           usage |-> Dict([output_tokens |-> Num(1)])]),
     Dict([content |-> List(<<TextBlock(<<"a">>), ToolUseBlock, TextBlock(<<"b">>)>>)]),
     Dict([content |-> List(<<ToolUseBlock>>), stop_reason |-> Str(<<"t", "u">>)]),
     Dict([content |-> List(<<Dict([text |-> Str(<<"x">>)])>>)]),
     Dict([content |-> List(<<Dict([type |-> Str(S_text)])>>)]),
     Dict([content |-> List(<<TextBlock(<<>>)>>)]),
     Dict([content |-> List(<<>>)])}

Candidate(parts) == Dict([content |-> Dict([parts |-> List(parts)])])

CandidatesBodies ==
    {Dict([candidates |-> List(<<Dict([content |-> Dict([parts |-> List(<<Dict([text |-> Str(<<"4">>)])>>)]),
                                       finishReason |-> Str(<<"S", "T", "O", "P">>)])>>),
           usageMetadata |-> Dict([totalTokenCount |-> Num(5)])]),
     Dict([candidates |-> List(<<Candidate(<<Dict([text |-> Str(<<"a">>)]),
                                             Dict([functionCall |-> Dict([name |-> Str(<<"f">>)])]),
                                             Dict([text |-> Str(<<"b">>)])>>)>>)]),
     Dict([candidates |-> List(<<Candidate(<<Str(<<"x">>)>>)>>)]),
     Dict([candidates |-> List(<<Dict([content |-> EmptyDict])>>)]),
     Dict([candidates |-> List(<<EmptyDict>>)]),
     Dict([candidates |-> List(<<>>)])}

\* bodies that are not a JSON object with the expected top-level key
OtherBodies == {EmptyDict, None, List(<<>>), List(<<Num(1)>>), Str(<<"o", "k">>)}

Bodies == ChoicesBodies \cup ContentBodies \cup CandidatesBodies \cup OtherBodies

\* one well-formed body of each wire format
SampleBodies ==
    {b \in Bodies : b.t = "obj" /\ DOMAIN b.v \cap {"usage", "usageMetadata"} # {}}

S_text_html == <<"t", "e", "x", "t", "/", "h", "t", "m", "l">>

HttpResponse(status, ctype, decodable, body) ==
    [status |-> status,
     headers |-> <<Header(S_ContentType, ctype)>>,
     ctype |-> ctype,
     decodable |-> decodable,
     body |-> body]

\* the HTTP responses the POST can receive
Responses ==
    {HttpResponse(200, S_application_json, TRUE, b) : b \in Bodies}
    \cup {HttpResponse(st, S_application_json, TRUE, b) : st \in {299, 300, 399}, b \in SampleBodies}
    \cup {HttpResponse(st, S_application_json, TRUE, None) : st \in {400, 500}}
    \cup {HttpResponse(200, S_application_json, FALSE, None),
          HttpResponse(200, S_text_html, FALSE, None)}

(***************************************************************************)
(* State                                                                   *)
(***************************************************************************)
VARIABLES
    provider,   \* the adapter instance: kind, api_key, base_url, headers, timeout
    pc,         \* where each chat_completion call stands
    args,       \* the arguments of each call: messages, model, options
    url,        \* the local url of chat_completion
    payload,    \* the local payload of chat_completion
    posts,      \* the requests session.post was given by each call, in order
    http,       \* the HTTP response each call received
    raw,        \* the local raw_response of chat_completion
    result,     \* the dict each call returned
    error,      \* the exception each call raised to its caller
    trace,      \* the steps each call has run, in order
    log         \* the records handed to the logger, in order

vars == <<provider, pc, args, url, payload, posts, http, raw, result, error, trace, log>>

NoArgs == [messages |-> List(<<>>), model |-> <<>>, options |-> [k \in {} |-> None]]
NoResponse == HttpResponse(0, <<>>, FALSE, None)
NoResult ==
    [text |-> None, provider |-> <<>>, model |-> <<>>, raw_response |-> None,
     usage |-> None, finish_reason |-> None]

CallIds == {1}

Calls == DOMAIN pc

InitCalls(ids) ==
    /\ pc = [c \in ids |-> "idle"]
    /\ args = [c \in ids |-> NoArgs]
    /\ url = [c \in ids |-> <<>>]
    /\ payload = [c \in ids |-> None]
    /\ posts = [c \in ids |-> <<>>]
    /\ http = [c \in ids |-> NoResponse]
    /\ raw = [c \in ids |-> None]
    /\ result = [c \in ids |-> NoResult]
    /\ error = [c \in ids |-> NoError]
    /\ trace = [c \in ids |-> <<>>]
    /\ log = <<>>

\* an adapter is constructed with its api key and the default base url
Init ==
    /\ \E kind \in Kinds, key \in ApiKeys :
           provider = NewProvider(kind, key, DefaultBaseUrl(kind))
    /\ InitCalls(CallIds)

(***************************************************************************)
(* chat_completion, step by step                                           *)
(***************************************************************************)
\* a Python exception raised by an operator above, as an exception object
PyErr(r) == Err(r.exc, 0, <<>>)

\* chat_completion(self, messages, model, **kwargs): a keyword argument named
\* like a positional parameter is a TypeError at the call
BindingError(options) == DOMAIN options \cap {"messages", "model"} # {}

\* chat_completion(m, model, **o) is entered: the arguments are bound
StartCallWith(c, m, model, o) ==
    /\ pc[c] = "idle"
    /\ args' = [args EXCEPT ![c] = [messages |-> m, model |-> model, options |-> o]]
    /\ IF BindingError(o)
       THEN /\ pc' = [pc EXCEPT ![c] = "failed"]
            /\ error' = [error EXCEPT ![c] = Err("TypeError", 0, <<>>)]
       ELSE /\ pc' = [pc EXCEPT ![c] = "build_url"]
            /\ UNCHANGED error
    /\ UNCHANGED <<provider, url, payload, posts, http, raw, result, trace, log>>

\* the caller invokes chat_completion(messages, model, **options)
StartCall(c) ==
    \E m \in MessageLists, model \in Models, o \in OptionsPool : StartCallWith(c, m, model, o)

\* url = await self._build_url(model, messages, **kwargs)
DoBuildUrl(c) ==
    /\ pc[c] = "build_url"
    /\ url' = [url EXCEPT ![c] = BuildUrl(provider, args[c].model)]
    /\ trace' = [trace EXCEPT ![c] = Append(@, "build_url")]
    /\ pc' = [pc EXCEPT ![c] = "build_payload"]
    /\ UNCHANGED <<provider, args, payload, posts, http, raw, result, error, log>>

\* payload = await self._build_payload(model, messages, **kwargs)
DoBuildPayload(c) ==
    /\ pc[c] = "build_payload"
    /\ trace' = [trace EXCEPT ![c] = Append(@, "build_payload")]
    /\ LET built == BuildPayload(provider, args[c].model, args[c].messages, args[c].options) IN
       IF IsRaise(built)
       THEN /\ pc' = [pc EXCEPT ![c] = "failed"]
            /\ error' = [error EXCEPT ![c] = PyErr(built)]
            /\ UNCHANGED payload
       ELSE /\ pc' = [pc EXCEPT ![c] = "send"]
            /\ payload' = [payload EXCEPT ![c] = built]
            /\ UNCHANGED error
    /\ UNCHANGED <<provider, args, url, posts, http, raw, result, log>>

\* the request session.post is given by _make_request(url, self.headers, payload)
PostRequest(p, u, pl) == [url |-> u, headers |-> p.headers, json |-> pl, timeout |-> p.timeout]

\* _make_request up to the await of session.post: log the request, issue the POST
SendRequest(c) ==
    /\ pc[c] = "send"
    /\ log' = log \o RequestLog(url[c], provider.headers, payload[c])
    /\ posts' = [posts EXCEPT ![c] = Append(@, PostRequest(provider, url[c], payload[c]))]
    /\ trace' = [trace EXCEPT ![c] = Append(@, "post")]
    /\ pc' = [pc EXCEPT ![c] = "await"]
    /\ UNCHANGED <<provider, args, url, payload, http, raw, result, error>>

\* AfterRequestError, except that the request is sent again
AfterRequestErrorRetry(c) == "send"

\* the pc of a call whose _make_request raised
AfterRequestError(c) == "failed"

\* ReceiveResponseWith, except that the decoded body is kept in one place
\* for all calls, as an attribute of the adapter would be
ReceiveResponseShared(c, resp) ==
    /\ pc[c] = "await"
    /\ LET out == MakeRequestOutcome(url[c], resp) IN
       /\ http' = [http EXCEPT ![c] = resp]
       /\ log' = log \o out.log
       /\ IF out.error = NoError
          THEN /\ raw' = [d \in Calls |-> out.body]
               /\ pc' = [pc EXCEPT ![c] = "extract"]
               /\ UNCHANGED error
          ELSE /\ error' = [error EXCEPT ![c] = out.error]
               /\ pc' = [pc EXCEPT ![c] = AfterRequestError(c)]
               /\ UNCHANGED raw
    /\ UNCHANGED <<provider, args, url, payload, posts, result, trace>>

\* the response resp arrives: the rest of _make_request
ReceiveResponseWith(c, resp) ==
    /\ pc[c] = "await"
    /\ LET out == MakeRequestOutcome(url[c], resp) IN
       /\ http' = [http EXCEPT ![c] = resp]
       /\ log' = log \o out.log
       /\ IF out.error = NoError
          THEN /\ raw' = [raw EXCEPT ![c] = out.body]
               /\ pc' = [pc EXCEPT ![c] = "extract"]
               /\ UNCHANGED error
          ELSE /\ error' = [error EXCEPT ![c] = out.error]
               /\ pc' = [pc EXCEPT ![c] = AfterRequestError(c)]
               /\ UNCHANGED raw
    /\ UNCHANGED <<provider, args, url, payload, posts, result, trace>>

\* the response arrives
ReceiveResponse(c) == \E resp \in Responses : ReceiveResponseWith(c, resp)

\* session.post itself fails: no connection, or self.timeout expires
ConnectionFails(c) ==
    /\ pc[c] = "await"
    /\ \E cls \in {"ClientConnectionError", "TimeoutError"} :
          error' = [error EXCEPT ![c] = Err(cls, 0, <<>>)]
    /\ pc' = [pc EXCEPT ![c] = AfterRequestError(c)]
    /\ UNCHANGED <<provider, args, url, payload, posts, http, raw, result, trace, log>>

\* ChatCompletionReturn, except that text is returned as the extractor gave it
ChatCompletionReturnTextAsIs(p, model, rawResponse) ==
    LET text == ExtractText(p, rawResponse)
        usage == ExtractUsage(p, rawResponse)
        finish_reason == ExtractFinishReason(p, rawResponse)
    IN  IF IsRaise(text) THEN [error |-> PyErr(text), result |-> NoResult]
        ELSE IF IsRaise(usage) THEN [error |-> PyErr(usage), result |-> NoResult]
        ELSE IF IsRaise(finish_reason) THEN [error |-> PyErr(finish_reason), result |-> NoResult]
        ELSE [error |-> NoError,
              result |-> [NormalizedResult(p, model, rawResponse, text, usage, finish_reason)
                              EXCEPT !.text = text]]

\* lines 81-92 of chat_completion: the three extractors in order, then the
\* returned dict; error is the first exception an extractor raises
ChatCompletionReturn(p, model, rawResponse) ==
    LET text == ExtractText(p, rawResponse)
        usage == ExtractUsage(p, rawResponse)
        finish_reason == ExtractFinishReason(p, rawResponse)
    IN  IF IsRaise(text) THEN [error |-> PyErr(text), result |-> NoResult]
        ELSE IF IsRaise(usage) THEN [error |-> PyErr(usage), result |-> NoResult]
        ELSE IF IsRaise(finish_reason) THEN [error |-> PyErr(finish_reason), result |-> NoResult]
        ELSE [error |-> NoError,
              result |-> NormalizedResult(p, model, rawResponse, text, usage, finish_reason)]

\* chat_completion after _make_request returned
ExtractAndReturn(c) ==
    /\ pc[c] = "extract"
    /\ trace' = [trace EXCEPT ![c] = Append(@, "extract")]
    /\ LET ret == ChatCompletionReturn(provider, args[c].model, raw[c]) IN
       IF ret.error = NoError
       THEN /\ result' = [result EXCEPT ![c] = ret.result]
            /\ pc' = [pc EXCEPT ![c] = "done"]
            /\ UNCHANGED error
       ELSE /\ error' = [error EXCEPT ![c] = ret.error]
            /\ pc' = [pc EXCEPT ![c] = "failed"]
            /\ UNCHANGED result
    /\ UNCHANGED <<provider, args, url, payload, posts, http, raw, log>>

Next ==
    \/ \E c \in Calls : StartCall(c)
    \/ \E c \in Calls : DoBuildUrl(c)
    \/ \E c \in Calls : DoBuildPayload(c)
    \/ \E c \in Calls : SendRequest(c)
    \/ \E c \in Calls : ReceiveResponse(c)
    \/ \E c \in Calls : ConnectionFails(c)
    \/ \E c \in Calls : ExtractAndReturn(c)

Spec == Init /\ [][Next]_vars

(***************************************************************************)
(* Overlapping calls on one adapter instance                               *)
(***************************************************************************)
\* how many chat_completion calls are in flight on the one adapter
NumCalls == 2

ConcCallIds == 1 .. NumCalls

\* every overlapping call has a model, a prompt and options of its own
ConcModel(c) == <<"m">> \o Digits(c)
ConcMessages(c) == List(<<Message(S_user, <<"q">> \o Digits(c))>>)
ConcOptions(c) == IF c % 2 = 0 THEN [tools |-> ToolDecl] ELSE [k \in {} |-> None]

\* a well-formed body of the adapter's wire format whose text, usage and
\* finish reason are those of call c alone
ConcBody(kind, c) ==
    LET txt == Str(<<"r">> \o Digits(c))
        fin == Str(S_stop \o Digits(c))
    IN  CASE kind \in {"OpenAI", "DeepSeek", "xAI"} ->
               Dict([choices |-> List(<<Dict([message |-> Dict([content |-> txt]),
                                              finish_reason |-> fin])>>),
                     usage |-> Dict([total_tokens |-> Num(c)])])
          [] kind = "Anthropic" ->
               Dict([content |-> List(<<Dict([type |-> Str(S_text), text |-> txt])>>),
                     stop_reason |-> fin,
                     usage |-> Dict([output_tokens |-> Num(c)])])
          [] kind = "Google" ->
               Dict([candidates |-> List(<<Dict([content |-> Dict([parts |-> List(<<Dict([text |-> txt])>>)]),
                                                 finishReason |-> fin])>>),
                     usageMetadata |-> Dict([totalTokenCount |-> Num(c)])])

\* the HTTP responses the POST of call c can receive
ConcResponses(kind, c) ==
    {HttpResponse(200, S_application_json, TRUE, ConcBody(kind, c)),
     HttpResponse(500, S_application_json, TRUE, None)}

\* one adapter, NumCalls calls not yet started
InitConc ==
    /\ \E kind \in Kinds, key \in ApiKeys :
           provider = NewProvider(kind, key, DefaultBaseUrl(kind))
    /\ InitCalls(ConcCallIds)

ConcStartCall(c) == StartCallWith(c, ConcMessages(c), ConcModel(c), ConcOptions(c))

ConcReceiveResponse(c) ==
    \E resp \in ConcResponses(provider.kind, c) : ReceiveResponseWith(c, resp)

\* any call may take its next step whenever another is suspended
NextConc ==
    \/ \E c \in Calls : ConcStartCall(c)
    \/ \E c \in Calls : DoBuildUrl(c)
    \/ \E c \in Calls : DoBuildPayload(c)
    \/ \E c \in Calls : SendRequest(c)
    \/ \E c \in Calls : ConcReceiveResponse(c)
    \/ \E c \in Calls : ConnectionFails(c)
    \/ \E c \in Calls : ExtractAndReturn(c)

SpecConc == InitConc /\ [][NextConc]_vars

(***************************************************************************)
(* Properties                                                              *)
(***************************************************************************)
PayloadBuilt(c) == payload[c] # None
Returned(c) == pc[c] = "done"
Raised(c) == pc[c] = "failed"
Received(c) == http[c] # NoResponse
Is2xx(resp) == resp.status >= 200 /\ resp.status <= 299

\* the payload fields the adapter itself computes
VendorFields(p, model, messages) ==
    CASE p.kind \in {"OpenAI", "DeepSeek", "xAI", "Anthropic"} ->
           [model |-> Str(model), messages |-> messages]
      [] p.kind = "Google" ->
           [contents |-> GoogleContents(GooglePromptText(messages.v, <<>>).v)]

\* C1: the payload an adapter builds keeps model and messages (for Google,
\* contents) at the values the adapter computed, whatever keys options has.
C1_VendorFieldsKept ==
    \A c \in Calls :
        PayloadBuilt(c) =>
            LET own == VendorFields(provider, args[c].model, args[c].messages) IN
            \A k \in DOMAIN own : k \in DOMAIN payload[c].v /\ payload[c].v[k] = own[k]

\* the payload keys of each vendor that options may collide with
RequiredKeys(p) ==
    CASE p.kind \in {"OpenAI", "DeepSeek", "xAI"} -> {"model", "messages"}
      [] p.kind = "Anthropic" -> {"model", "messages", "max_tokens"}
      [] p.kind = "Google" -> {"contents"}

\* C2: every key of options that does not collide with a vendor-required
\* field is in the built payload with the caller's value, and the payload
\* given to session.post is the built payload.
C2_OptionsForwarded ==
    \A c \in Calls :
        /\ PayloadBuilt(c) =>
              \A k \in (DOMAIN args[c].options) \ RequiredKeys(provider) :
                  k \in DOMAIN payload[c].v /\ payload[c].v[k] = args[c].options[k]
        /\ \A i \in 1..Len(posts[c]) : posts[c][i].json = payload[c]

\* a call with a tools declaration has posted a payload that carries it
C2_Witness ==
    \E c \in Calls :
        /\ "tools" \in DOMAIN args[c].options
        /\ Len(posts[c]) = 1
        /\ posts[c][1].json.v["tools"] = ToolDecl
        /\ Returned(c)

\* C3: _extract_text_from_response never raises on a JSON object a call
\* received, whatever keys are missing in it, and returns None when the
\* object lacks the top-level key of the text path.
C3_ExtractTextTotal ==
    \A c \in Calls :
        pc[c] = "extract" /\ raw[c].t = "obj" =>
            LET text == ExtractText(provider, raw[c]) IN
            /\ ~IsRaise(text)
            /\ (DOMAIN raw[c].v \cap {"choices", "content", "candidates"} = {} => text = None)

\* C4: a response with a status outside 200-299 makes chat_completion raise
\* the ClientResponseError of the transport, with the status and headers of
\* the response; no extractor runs and no result is returned.
C4_Non2xxRaises ==
    \A c \in Calls :
        Received(c) /\ ~Is2xx(http[c]) =>
            /\ Raised(c)
            /\ error[c] = Err("ClientResponseError", http[c].status, http[c].headers)
            /\ result[c] = NoResult
            /\ \A i \in 1..Len(trace[c]) : trace[c][i] # "extract"

\* C5: the raw_response of a returned result is the JSON body the transport
\* received, unchanged.
C5_RawResponseUntouched ==
    \A c \in Calls : Returned(c) => result[c].raw_response = http[c].body

\* a call returned a result without text (a tool call, or an empty object)
\* and the body is still there
C5_Witness ==
    \E c \in Calls :
        /\ Returned(c)
        /\ result[c].text = None
        /\ http[c].body \in {b \in Bodies : b.t = "obj"}
        /\ result[c].raw_response = http[c].body

\* the documented tag of each adapter
VendorTag(kind) ==
    CASE kind = "OpenAI" -> <<"o", "p", "e", "n", "a", "i">>
      [] kind = "Anthropic" -> <<"a", "n", "t", "h", "r", "o", "p", "i", "c">>
      [] kind = "Google" -> <<"g", "o", "o", "g", "l", "e">>
      [] kind = "DeepSeek" -> <<"d", "e", "e", "p", "s", "e", "e", "k">>
      [] kind = "xAI" -> <<"x", "a", "i">>

\* C6: the provider of a returned result is the lowercase tag of the adapter
\* and its model is the model argument, whatever the body says.
C6_ProviderAndModel ==
    \A c \in Calls :
        Returned(c) =>
            /\ result[c].provider = VendorTag(provider.kind)
            /\ result[c].model = args[c].model

\* a call returned although the body names another model
C6_Witness ==
    \E c \in Calls :
        /\ Returned(c)
        /\ "model" \in DOMAIN result[c].raw_response.v
        /\ result[c].raw_response.v["model"] # Str(args[c].model)
        /\ result[c].model = args[c].model
        /\ result[c].provider = VendorTag(provider.kind)

\* key occurs in a string of the JSON value x
RECURSIVE JsonContains(_, _)
JsonContains(x, key) ==
    CASE x.t = "str" -> IsSubstr(key, x.v)
      [] x.t = "list" -> \E i \in 1..Len(x.v) : JsonContains(x.v[i], key)
      [] x.t = "obj" -> \E k \in DOMAIN x.v : JsonContains(x.v[k], key)
      [] OTHER -> FALSE

Leaks(event, key) == IsSubstr(key, event.text) \/ JsonContains(event.json, key)

\* C7: no log record contains the api key of the adapter.
C7_NoKeyInLog ==
    \A i \in 1..Len(log) : ~Leaks(log[i], provider.api_key)

\* the transport decoded a JSON body from a 2xx response
DecodedJson(resp) ==
    Is2xx(resp) /\ resp.ctype = S_application_json /\ resp.decodable

\* C8: a call that received a JSON body with a 2xx status returns a result
\* that holds the body; no extractor ends the call with an exception.
C8_ExtractionNeverAborts ==
    \A c \in Calls :
        Received(c) /\ DecodedJson(http[c]) /\ pc[c] \in {"done", "failed"} =>
            /\ Returned(c)
            /\ result[c].raw_response = http[c].body

\* C9: a 2xx response whose body is not decodable JSON makes the call raise
\* an error that is not the ClientResponseError of a failed status, and no
\* result is returned.
C9_MalformedResponseDistinct ==
    \A c \in Calls :
        Received(c) /\ Is2xx(http[c]) /\ ~http[c].decodable =>
            /\ Raised(c)
            /\ ~IsClientResponseError(error[c])
            /\ result[c] = NoResult

\* the fixed order of the steps of a call
StepOrder == <<"build_url", "build_payload", "post", "extract">>

IsPrefix(s, t) == Len(s) <= Len(t) /\ SubSeq(t, 1, Len(s)) = s

\* C10: the steps of a call are a prefix of build_url, build_payload, post,
\* extract; one POST is issued per "post" step, so at most one per call, none
\* after a builder failed and none after a response that failed; extractors
\* run only on a response the transport accepted.
C10_FixedOrderOnePost ==
    \A c \in Calls :
        /\ IsPrefix(trace[c], StepOrder)
        /\ Len(posts[c]) = Cardinality({i \in 1..Len(trace[c]) : trace[c][i] = "post"})
        /\ Len(posts[c]) <= 1
        /\ Len(posts[c]) = 1 => posts[c][1].url = url[c] /\ posts[c][1].json = payload[c]
        /\ trace[c] = StepOrder =>
              Received(c) /\ MakeRequestOutcome(url[c], http[c]).error = NoError
        /\ Raised(c) /\ ~Received(c) /\ error[c].cls \in {"TypeError", "KeyError"} =>
              posts[c] = <<>>

\* a call whose POST was answered with a failing status has ended, with the
\* one POST it issued
C10_Witness ==
    \E c \in Calls :
        /\ Raised(c)
        /\ Received(c)
        /\ http[c].status >= 400
        /\ trace[c] = <<"build_url", "build_payload", "post">>
        /\ Len(posts[c]) = 1

\* the contents of the messages whose role is "user", in order
RECURSIVE UserContents(_)
UserContents(msgs) ==
    IF msgs = <<>> THEN <<>>
    ELSE IF msgs[1].v["role"] = Str(S_user)
         THEN <<msgs[1].v["content"].v>> \o UserContents(Tail(msgs))
         ELSE UserContents(Tail(msgs))

\* "\n".join(strs)
RECURSIVE JoinNewline(_)
JoinNewline(strs) ==
    IF strs = <<>> THEN <<>>
    ELSE IF Len(strs) = 1 THEN strs[1]
    ELSE strs[1] \o S_newline \o JoinNewline(Tail(strs))

\* C11: the payload of the Google adapter has one contents entry with one
\* text part, whose text is the newline-join of the contents of the user
\* messages, each unaltered; other roles contribute nothing.  Stated for the
\* calls whose options carry no contents key of their own.
C11_GooglePromptIsJoin ==
    \A c \in Calls :
        /\ provider.kind = "Google"
        /\ PayloadBuilt(c)
        /\ "contents" \notin DOMAIN args[c].options
        => payload[c].v["contents"] =
              List(<<Dict([parts |->
                  List(<<Dict([text |-> Str(JoinNewline(UserContents(args[c].messages.v)))])>>)])>>)

IsObjWith(x, k) == x.t = "obj" /\ k \in DOMAIN x.v
IsNonEmptyList(x) == x.t = "list" /\ Len(x.v) > 0

\* raw has the text path its vendor documents: a first choice with a string
\* content; a non-empty content list of typed blocks whose text blocks have
\* a string text; a first candidate with a non-empty parts list of objects
\* whose text, where present, is a string
WellFormedText(kind, x) ==
    CASE kind \in {"OpenAI", "xAI", "DeepSeek"} ->
           /\ IsObjWith(x, "choices")
           /\ IsNonEmptyList(x.v["choices"])
           /\ IsObjWith(x.v["choices"].v[1], "message")
           /\ IsObjWith(x.v["choices"].v[1].v["message"], "content")
           /\ x.v["choices"].v[1].v["message"].v["content"].t = "str"
      [] kind = "Anthropic" ->
           /\ IsObjWith(x, "content")
           /\ IsNonEmptyList(x.v["content"])
           /\ \A i \in 1..Len(x.v["content"].v) :
                 LET b == x.v["content"].v[i] IN
                 /\ IsObjWith(b, "type")
                 /\ b.v["type"].t = "str"
                 /\ b.v["type"] = Str(S_text) => IsObjWith(b, "text") /\ b.v["text"].t = "str"
      [] kind = "Google" ->
           /\ IsObjWith(x, "candidates")
           /\ IsNonEmptyList(x.v["candidates"])
           /\ IsObjWith(x.v["candidates"].v[1], "content")
           /\ IsObjWith(x.v["candidates"].v[1].v["content"], "parts")
           /\ IsNonEmptyList(x.v["candidates"].v[1].v["content"].v["parts"])
           /\ \A i \in 1..Len(x.v["candidates"].v[1].v["content"].v["parts"].v) :
                 LET part == x.v["candidates"].v[1].v["content"].v["parts"].v[i] IN
                 /\ part.t = "obj"
                 /\ "text" \in DOMAIN part.v => part.v["text"].t = "str"

\* the texts of the blocks of type "text", concatenated in order
RECURSIVE ConcatTextBlocks(_)
ConcatTextBlocks(blocks) ==
    IF blocks = <<>> THEN <<>>
    ELSE (IF blocks[1].v["type"] = Str(S_text) THEN blocks[1].v["text"].v ELSE <<>>)
         \o ConcatTextBlocks(Tail(blocks))

\* the texts of the parts that have one, concatenated in order
RECURSIVE ConcatPartTexts(_)
ConcatPartTexts(parts) ==
    IF parts = <<>> THEN <<>>
    ELSE (IF "text" \in DOMAIN parts[1].v THEN parts[1].v["text"].v ELSE <<>>)
         \o ConcatPartTexts(Tail(parts))

\* the text at the location the vendor documents, for a well-formed x
DocumentedText(kind, x) ==
    CASE kind \in {"OpenAI", "xAI"} -> x.v["choices"].v[1].v["message"].v["content"].v
      [] kind = "DeepSeek" -> Strip(x.v["choices"].v[1].v["message"].v["content"].v)
      [] kind = "Anthropic" -> ConcatTextBlocks(x.v["content"].v)
      [] kind = "Google" -> ConcatPartTexts(x.v["candidates"].v[1].v["content"].v["parts"].v)

\* C12: on a well-formed response each adapter's text extractor returns the
\* text at the documented location: content verbatim (OpenAI, xAI), content
\* trimmed (DeepSeek), the concatenated text blocks (Anthropic), the
\* concatenated part texts (Google); a returned result carries that text
\* when it is not empty.
C12_TextAtDocumentedLocation ==
    \A c \in Calls :
        WellFormedText(provider.kind, raw[c]) =>
            LET documented == DocumentedText(provider.kind, raw[c]) IN
            /\ ExtractText(provider, raw[c]) = Str(documented)
            /\ Returned(c) /\ documented # <<>> => result[c].text = Str(documented)

\* the Anthropic adapter returned the two text blocks around a tool_use block
C12_Witness ==
    \E c \in Calls :
        /\ Returned(c)
        /\ provider.kind = "Anthropic"
        /\ WellFormedText("Anthropic", raw[c])
        /\ Len(raw[c].v["content"].v) = 3
        /\ result[c].text = Str(<<"a", "b">>)

\* C13: every payload the Anthropic adapter builds has a max_tokens field,
\* 1024 when options has none and the caller's value otherwise; its messages
\* field is the caller's message list and the URL is base_url + "/messages".
C13_AnthropicMaxTokens ==
    \A c \in Calls :
        provider.kind = "Anthropic" /\ PayloadBuilt(c) =>
            /\ "max_tokens" \in DOMAIN payload[c].v
            /\ payload[c].v["max_tokens"] =
                  IF "max_tokens" \in DOMAIN args[c].options
                  THEN args[c].options["max_tokens"]
                  ELSE Num(1024)
            /\ payload[c].v["messages"] = args[c].messages
            /\ url[c] = provider.base_url \o <<"/", "m", "e", "s", "s", "a", "g", "e", "s">>

\* an Anthropic call without a max_tokens option has posted max_tokens 1024
C13_Witness ==
    \E c \in Calls :
        /\ provider.kind = "Anthropic"
        /\ "max_tokens" \notin DOMAIN args[c].options
        /\ Len(args[c].messages.v) > 0
        /\ Len(posts[c]) = 1
        /\ posts[c][1].json.v["max_tokens"] = Num(1024)
        /\ posts[c][1].json.v["messages"] = args[c].messages

\* C15: the text of a returned result is never the empty string: when the
\* text extractor returns "", the result's text is None; usage and
\* finish_reason are what their extractors return.
C15_TextNeverEmpty ==
    \A c \in Calls :
        Returned(c) =>
            /\ result[c].text # Str(<<>>)
            /\ ExtractText(provider, raw[c]) = Str(<<>>) => result[c].text = None
            /\ result[c].usage = ExtractUsage(provider, raw[c])
            /\ result[c].finish_reason = ExtractFinishReason(provider, raw[c])

\* an Anthropic response without a text block: the extractor gives "", the
\* result None, and the stop_reason is passed through
C15_Witness ==
    \E c \in Calls :
        /\ Returned(c)
        /\ provider.kind = "Anthropic"
        /\ ExtractText(provider, raw[c]) = Str(<<>>)
        /\ result[c].text = None
        /\ result[c].finish_reason # None

\* chat_completion(a.messages, a.model, **a.options) run on adapter p with no
\* other call in flight, its POST answered by resp
RunAlone(p, a, resp) ==
    LET u == BuildUrl(p, a.model)
        built == BuildPayload(p, a.model, a.messages, a.options)
        out == MakeRequestOutcome(u, resp)
    IN  IF BindingError(a.options) THEN [error |-> Err("TypeError", 0, <<>>), result |-> NoResult]
        ELSE IF IsRaise(built) THEN [error |-> PyErr(built), result |-> NoResult]
        ELSE IF out.error # NoError THEN [error |-> out.error, result |-> NoResult]
        ELSE ChatCompletionReturn(p, a.model, out.body)

C14_OwnResult ==
    \A c \in Calls :
        Returned(c) =>
            LET alone == RunAlone(provider, args[c], http[c]) IN
            /\ alone.error = NoError
            /\ result[c].model = alone.result.model
            /\ result[c].raw_response = alone.result.raw_response
            /\ result[c].text = alone.result.text
            /\ result[c].usage = alone.result.usage
            /\ result[c].finish_reason = alone.result.finish_reason
            /\ result[c].model = args[c].model
            /\ result[c].raw_response = http[c].body

\* C14: in every interleaving of the calls on one adapter, the model,
\* raw_response, text, usage and finish_reason a call returns are those the
\* call gives when run alone on its own arguments and its own response, and
\* no step changes the adapter (api_key, base_url, headers, timeout).
C14_CallsIsolated == [](C14_OwnResult) /\ [][provider' = provider]_vars

\* one call has returned its result while another, with a different model
\* and a different response, has its response and has not yet returned
C14_Witness ==
    \E c \in Calls, d \in Calls :
        /\ c # d
        /\ Returned(c)
        /\ pc[d] = "extract"
        /\ args[c].model # args[d].model
        /\ raw[c] # raw[d]
        /\ result[c].text # None
        /\ result[c].raw_response = raw[c]

====
